---- MODULE Spec2Model ----
(***************************************************************************)
(* Model of the voice-assistant frontend: the browser page (AgentRPCClient, *)
(* the connect flow, the close button, the auto-disconnect effect) and the *)
(* HTTP routes /api/shutdown-room and /api/connection-details.             *)
(*                                                                         *)
(* The media SDK (Room, performRpc, createLocal*Track), fetch and the      *)
(* LiveKit server SDK are the environment: each call to them is an action  *)
(* whose outcome is chosen nondeterministically among the outcomes the     *)
(* call can have (resolve, reject, time out).                              *)
(*                                                                         *)
(* The page is modelled while it is open: handleBeforeUnload, which runs   *)
(* when the page is left, is outside the model.                            *)
(***************************************************************************)
EXTENDS Integers, Sequences, FiniteSets, TLC

VARIABLES
    remoteParticipants, \* room.remoteParticipants: identities of the remote participants
    roomState,          \* room.state
    roomName,           \* room.name ("" when the room has none)
    call,               \* the AgentRPCClient invocation in flight and its promise
    selectedPermissions,  \* Page state: the chosen PermissionSettings, or none
    rpcLogs,            \* Page state: the RPC log, newest first
    shouldAutoDisconnect, \* Page state: set by a session_shutdown event
    effectDep,          \* shouldAutoDisconnect as the auto-disconnect effect last saw it
    auto,               \* the autoDisconnect sequence started by the effect
    conn,               \* the onConnectButtonClicked invocation in flight
    hcd,                \* the handleCustomDisconnect invocation in flight, and its last outcome
    fallbackTimer,      \* whether the 5000 ms fallback timer of handleCustomDisconnect is set
    disconnectCallers,  \* who has called room.disconnect so far
    env,                \* server: LIVEKIT_API_KEY, LIVEKIT_API_SECRET, LIVEKIT_URL
    shut,               \* server: the POST /api/shutdown-room request being handled
    cdReq               \* server: the /api/connection-details request being handled

rpcVars == <<call>>
roomVars == <<remoteParticipants, roomState, roomName>>
pageVars == <<selectedPermissions, rpcLogs, shouldAutoDisconnect, effectDep, auto, conn,
              hcd, fallbackTimer, disconnectCallers>>

serverVars == <<env, shut, cdReq>>

vars == <<remoteParticipants, roomState, roomName, call,
          selectedPermissions, rpcLogs, shouldAutoDisconnect, effectDep, auto, conn,
          hcd, fallbackTimer, disconnectCallers, env, shut, cdReq>>

----------------------------------------------------------------------------
(* Bounds of the model *)

MaxInbound == 2

----------------------------------------------------------------------------
(* The room as the page sees it *)

RoomStates == {"disconnected", "connecting", "connected"}
RoomNames == {"voice_assistant_room_1", "voice_assistant_room_2"}

\* Identities a remote participant can have; the agent's is the first.
RemoteIdentities == {"agent-AJ_1", "observer_7"}

\* String.prototype.includes on the identities above.
Includes(identity, sub) ==
    CASE identity = "agent-AJ_1" /\ sub = "agent" -> TRUE
      [] OTHER -> FALSE

IsAgent(identity) == Includes(identity, "voice_assistant") \/ Includes(identity, "agent")

\* Array.from(room.remoteParticipants.values()).find(...): the set of matches;
\* empty when find returns undefined.
AgentParticipants == {p \in remoteParticipants : IsAgent(p)}

----------------------------------------------------------------------------
(* AgentRPCClient *)

Methods == {"agent.hello", "agent.interaction", "agent.close"}

\* What the agent can put on the wire as the RPC response payload.
ResponsePayloads ==
    { "{\"success\":true,\"message\":\"ok\"}",
      "{\"success\":false,\"message\":\"busy\"}",
      "null",
      "<html>" }

\* A value thrown or rejected: an Error with a message, or something else.
Err(msg) == [isError |-> TRUE, message |-> msg]
NonErr == [isError |-> FALSE, message |-> ""]

\* JSON.parse on the payloads above: the parsed value, or the SyntaxError thrown.
JSONParse(s) ==
    CASE s = "{\"success\":true,\"message\":\"ok\"}" ->
            [ok |-> TRUE, kind |-> "object", success |-> TRUE, message |-> <<"ok">>,
             error |-> NonErr]
      [] s = "{\"success\":false,\"message\":\"busy\"}" ->
            [ok |-> TRUE, kind |-> "object", success |-> FALSE, message |-> <<"busy">>,
             error |-> NonErr]
      [] s = "null" ->
            [ok |-> TRUE, kind |-> "null", success |-> FALSE, message |-> <<>>,
             error |-> NonErr]
      [] OTHER ->
            [ok |-> FALSE, kind |-> "none", success |-> FALSE, message |-> <<>>,
             error |-> Err("Unexpected token < in JSON")]

\* How localParticipant.performRpc can settle: a response payload, a rejection
\* with an RpcError (an Error), the 5000 ms response timeout, or a rejection with
\* a value that is no Error.
RpcOutcomes ==
    [kind : {"response"}, payload : ResponsePayloads, error : {NonErr}]
    \cup [kind : {"reject"}, payload : {""},
          error : {Err("Recipient not found"), NonErr}]
    \cup [kind : {"timeout"}, payload : {""}, error : {Err("Response timeout")}]

responseTimeout == 5000

\* The promise of an async method.
Pending == [settled |-> "pending", kind |-> "none", success |-> FALSE, message |-> <<>>]
Resolved(kind, success, message) ==
    [settled |-> "resolved", kind |-> kind, success |-> success, message |-> message]
Rejected(e) ==
    [settled |-> "rejected", kind |-> "none", success |-> FALSE, message |-> <<e.message>>]

\* error instanceof Error ? error.message : "Unknown error"
ErrorMessage(e) == IF e.isError THEN e.message ELSE "Unknown error"

RethrowResult(e) == Rejected(e)
BareMessageResult(e) == Resolved("object", FALSE, <<ErrorMessage(e)>>)

\* The catch block of callHelloWorld, callInteraction and callClose: the template
\* literal `Error: ${...}` is the two pieces of the message.
CatchResult(e) == Resolved("object", FALSE, <<"Error: ", ErrorMessage(e)>>)

NoCall ==
    [pc |-> "idle", method |-> "none", caller |-> "none", rpcCount |-> 0,
     dest |-> "none", cause |-> "none", result |-> Pending]

RetryAfterFailure(c) == c.rpcCount < 2
\* Whether a failed performRpc is issued again: the methods have no retry loop.
Retry(c) == FALSE

\* The start of a method up to its await: find the agent, throw when there is
\* none, else issue performRpc.
CallInvoke(m, caller) ==
    /\ call.pc = "idle"
    /\ IF AgentParticipants = {}
       THEN call' = [NoCall EXCEPT !.pc = "done", !.method = m, !.caller = caller,
                                   !.cause = "noAgent",
                                   !.result = CatchResult(Err("Agent participant not found"))]
       ELSE \E p \in AgentParticipants :
                 call' = [NoCall EXCEPT !.pc = "awaitRpc", !.method = m, !.caller = caller,
                                        !.rpcCount = 1, !.dest = p]

\* performRpc settles and the method runs to its return.
PerformRpcSettle ==
    /\ call.pc = "awaitRpc"
    /\ \E o \in RpcOutcomes :
         LET parsed == JSONParse(o.payload)
             thrown == IF o.kind = "response" THEN parsed.error ELSE o.error
             ok == o.kind = "response" /\ parsed.ok
         IN  IF ok
             THEN call' = [call EXCEPT !.pc = "done",
                             !.result = Resolved(parsed.kind, parsed.success, parsed.message)]
             ELSE IF Retry(call)
             THEN call' = [call EXCEPT !.rpcCount = @ + 1]
             ELSE call' = [call EXCEPT !.pc = "done",
                             !.cause = IF o.kind = "response" THEN "invalidJson" ELSE o.kind,
                             !.result = CatchResult(thrown)]

\* The caller has read the promise: the invocation is over.
CallReturn ==
    /\ call.pc = "done"
    /\ call.caller = "direct"
    /\ call' = NoCall

\* A method of the class called by any code holding a client.
CallDirect ==
    /\ \E m \in Methods : CallInvoke(m, "direct")
    /\ UNCHANGED <<roomVars, pageVars, serverVars>>

CallSettle ==
    /\ PerformRpcSettle
    /\ UNCHANGED <<roomVars, pageVars, serverVars>>

CallDone ==
    /\ CallReturn
    /\ UNCHANGED <<roomVars, pageVars, serverVars>>

\* Remote participants join and leave a connected room.
ParticipantsChange ==
    /\ roomState = "connected"
    /\ \E p \in RemoteIdentities :
         remoteParticipants' = IF p \in remoteParticipants
                               THEN remoteParticipants \ {p}
                               ELSE remoteParticipants \cup {p}
    /\ UNCHANGED <<roomState, roomName, rpcVars, pageVars, serverVars>>

----------------------------------------------------------------------------
(* Page: state *)

NoPermissions == [selected |-> FALSE, audio |-> FALSE, video |-> FALSE, screen |-> FALSE]
Permissions(a, v, s) == [selected |-> TRUE, audio |-> a, video |-> v, screen |-> s]

\* permissionOptions of PermissionSelector
PermissionOptions ==
    { Permissions(TRUE, TRUE, TRUE), Permissions(TRUE, TRUE, FALSE),
      Permissions(TRUE, FALSE, TRUE), Permissions(TRUE, FALSE, FALSE),
      Permissions(FALSE, FALSE, FALSE) }

NoAuto ==
    [pc |-> "idle", roomName |-> "", roomAtDisconnect |-> "", disconnected |-> FALSE,
     posted |-> FALSE, body |-> ""]

NoConn ==
    [pc |-> "idle", localTracks |-> <<>>, published |-> 0, publishErrors |-> 0,
     steps |-> <<>>, connected |-> FALSE, response |-> "none", details |-> "none",
     alerts |-> {}]

NoHcd == [pc |-> "idle", rpcFailed |-> FALSE]

InitRoom ==
    /\ remoteParticipants = {}
    /\ roomState = "disconnected"
    /\ roomName = ""

InitRpc == call = NoCall

InitPage ==
    /\ selectedPermissions = NoPermissions
    /\ rpcLogs = <<>>
    /\ shouldAutoDisconnect = FALSE
    /\ effectDep = FALSE
    /\ auto = NoAuto
    /\ conn = NoConn
    /\ hcd = NoHcd
    /\ fallbackTimer = FALSE
    /\ disconnectCallers = {}

----------------------------------------------------------------------------
(* Server: the environment and the request bodies *)

\* process.env.X: undefined, the empty string, or a value.
EnvValues == {"undefined", "", "set"}
Envs == [API_KEY : EnvValues, API_SECRET : EnvValues, LIVEKIT_URL : EnvValues]
EnvSet == [API_KEY |-> "set", API_SECRET |-> "set", LIVEKIT_URL |-> "set"]

\* A field of a JSON body: absent, a string or a boolean.
Absent == [type |-> "absent", value |-> ""]
JStr(v) == [type |-> "string", value |-> v]
JBool(b) == [type |-> "boolean", value |-> IF b THEN "true" ELSE "false"]

\* JavaScript truthiness of a field.
Truthy(f) ==
    CASE f.type = "absent" -> FALSE
      [] f.type = "string" -> f.value # ""
      [] f.type = "boolean" -> f.value = "true"

\* What `await req.json()` throws on a body that is no JSON, and what
\* destructuring throws on the JSON value null.
SyntaxErr == Err("Unexpected end of JSON input")
DestructureErr == Err("Cannot destructure property of null")

----------------------------------------------------------------------------
(* Server: POST /api/shutdown-room *)

RoomNameFields == {Absent, JStr("")} \cup {JStr(n) : n \in RoomNames}

ShutdownBodies ==
    [kind : {"object"}, roomName : RoomNameFields]
    \cup [kind : {"invalid", "null"}, roomName : {Absent}]

NoShut ==
    [pc |-> "idle", body |-> [kind |-> "null", roomName |-> Absent], status |-> 0,
     success |-> FALSE, error |-> <<>>, deleteCalls |-> <<>>, deleteOk |-> FALSE]

\* NextResponse.json({ error }, { status })
ShutError(r, status, error) ==
    [r EXCEPT !.pc = "responded", !.status = status, !.error = error]

EmptyNameAccepted(f) == f.type # "absent"
\* if (!roomName): the request goes on only with a truthy roomName.
HasRoomName(f) == Truthy(f)

\* !API_KEY || !API_SECRET || !LIVEKIT_URL
ShutdownEnvMissing ==
    \E k \in {"API_KEY", "API_SECRET", "LIVEKIT_URL"} : env[k] \in {"undefined", ""}

\* The handler up to `await roomService.deleteRoom(roomName)`.
ShutdownRoomPost ==
    /\ shut.pc = "idle"
    /\ \E b \in ShutdownBodies :
         LET r == [NoShut EXCEPT !.body = b]
         IN  shut' =
               IF ShutdownEnvMissing
               THEN ShutError(r, 500, <<"Missing LiveKit environment variables">>)
               ELSE IF b.kind = "invalid"
               THEN ShutError(r, 500, <<"Failed to shutdown room: ", ErrorMessage(SyntaxErr)>>)
               ELSE IF b.kind = "null"
               THEN ShutError(r, 500,
                              <<"Failed to shutdown room: ", ErrorMessage(DestructureErr)>>)
               ELSE IF ~HasRoomName(b.roomName)
               THEN ShutError(r, 400, <<"Room name is required">>)
               ELSE [r EXCEPT !.pc = "deleting", !.deleteCalls = <<b.roomName.value>>]
    /\ UNCHANGED <<env, cdReq, roomVars, rpcVars, pageVars>>

\* deleteRoom settles: it resolves, or rejects with an Error or another value.
DeleteRoomOutcomes == {[ok |-> TRUE, error |-> NonErr],
                       [ok |-> FALSE, error |-> Err("requested room does not exist")],
                       [ok |-> FALSE, error |-> NonErr]}

ShutdownDeleteSettle ==
    /\ shut.pc = "deleting"
    /\ \E o \in DeleteRoomOutcomes :
         shut' = IF o.ok
                 THEN [shut EXCEPT !.pc = "responded", !.status = 200, !.success = TRUE,
                                   !.deleteOk = TRUE]
                 ELSE ShutError(shut, 500,
                                <<"Failed to shutdown room: ", ErrorMessage(o.error)>>)
    /\ UNCHANGED <<env, cdReq, roomVars, rpcVars, pageVars>>

\* The response is sent; the route takes the next request.
ShutdownRoomDone ==
    /\ shut.pc = "responded"
    /\ shut' = NoShut
    /\ UNCHANGED <<env, cdReq, roomVars, rpcVars, pageVars>>

----------------------------------------------------------------------------
(* Server: GET and POST /api/connection-details *)

\* searchParams.get(name): the string "true", another string, or null.
QueryValues == {"true", "1", "null"}
Queries == [audio : QueryValues, video : QueryValues, screen : QueryValues]

PermissionFields == {JBool(TRUE), JBool(FALSE), JStr("true"), Absent}
PermissionBodies ==
    [kind : {"object"}, audio : PermissionFields, video : PermissionFields,
     screen : PermissionFields]
    \cup [kind : {"invalid", "null"}, audio : {Absent}, video : {Absent}, screen : {Absent}]

NoQuery == [audio |-> "null", video |-> "null", screen |-> "null"]
NoBody == [kind |-> "null", audio |-> Absent, video |-> Absent, screen |-> Absent]

NoReq ==
    [pc |-> "idle", method |-> "none", query |-> NoQuery, body |-> NoBody,
     calls |-> <<>>, done |-> {}, status |-> 0, message |-> "", details |-> FALSE,
     permissions |-> <<FALSE, FALSE, FALSE>>]

TokenBeforeRoom(method) ==
    IF method = "POST" THEN <<"createSession", "createToken", "createRoom", "sleep">>
    ELSE <<"createSession", "createToken", "createRoom">>
\* The awaited calls of the handlers, in the order of the code; POST waits
\* 200 ms between createRoom and the token.
RouteSteps(method) ==
    IF method = "POST" THEN <<"createSession", "createRoom", "sleep", "createToken">>
    ELSE <<"createSession", "createRoom", "createToken">>

\* return new NextResponse(error.message, { status: 500 }) of the outer catch;
\* a thrown value that is no Error leaves the handler without a response.
Fail(r, e) ==
    IF e.isError
    THEN [r EXCEPT !.pc = "responded", !.status = 500, !.message = e.message]
    ELSE [r EXCEPT !.pc = "responded", !.status = 0, !.message = ""]

\* The first of the three checks `X === undefined` that fails, as the Error thrown.
EnvError ==
    IF env.LIVEKIT_URL = "undefined" THEN Err("LIVEKIT_URL is not defined")
    ELSE IF env.API_KEY = "undefined" THEN Err("LIVEKIT_API_KEY is not defined")
    ELSE IF env.API_SECRET = "undefined" THEN Err("LIVEKIT_API_SECRET is not defined")
    ELSE NonErr

AnyTypeAccepted(b) == TRUE
\* typeof x === 'boolean' for audio, video and screen.
AllBoolean(b) ==
    b.audio.type = "boolean" /\ b.video.type = "boolean" /\ b.screen.type = "boolean"

\* The handler calls its first awaited step.
Begin(r) ==
    [r EXCEPT !.pc = RouteSteps(r.method)[1], !.calls = <<RouteSteps(r.method)[1]>>]

\* GET up to `await createSessionAPI(...)`.
ConnectionDetailsGet ==
    /\ cdReq.pc = "idle"
    /\ \E q \in Queries :
         LET r == [NoReq EXCEPT !.method = "GET", !.query = q,
                                !.permissions = <<q.audio = "true", q.video = "true",
                                                  q.screen = "true">>]
         IN  cdReq' = IF EnvError.isError THEN Fail(r, EnvError) ELSE Begin(r)
    /\ UNCHANGED <<env, shut, roomVars, rpcVars, pageVars>>

\* POST up to `await createSessionAPI(...)`.
ConnectionDetailsPost ==
    /\ cdReq.pc = "idle"
    /\ \E b \in PermissionBodies :
         LET r == [NoReq EXCEPT !.method = "POST", !.body = b,
                                !.permissions = <<Truthy(b.audio), Truthy(b.video),
                                                  Truthy(b.screen)>>]
         IN  cdReq' =
               IF EnvError.isError THEN Fail(r, EnvError)
               ELSE IF b.kind = "invalid" THEN Fail(r, SyntaxErr)
               ELSE IF b.kind = "null" THEN Fail(r, DestructureErr)
               ELSE IF ~AllBoolean(b)
               THEN Fail(r, Err("Invalid permission types - must be boolean"))
               ELSE Begin(r)
    /\ UNCHANGED <<env, shut, roomVars, rpcVars, pageVars>>

\* How an awaited step can end. createSessionAPI throws on a response that is
\* not ok; a session response without `data` makes the payload construction
\* throw a TypeError before createRoom is called.
StepOutcomes(step) ==
    CASE step = "createSession" ->
            {[ok |-> TRUE, error |-> NonErr],
             [ok |-> FALSE, error |-> Err("Failed to create session")],
             [ok |-> FALSE, error |-> Err("Cannot read properties of undefined")]}
      [] step = "createRoom" ->
            {[ok |-> TRUE, error |-> NonErr],
             [ok |-> FALSE, error |-> Err("room already exists")],
             [ok |-> FALSE, error |-> NonErr]}
      [] step = "sleep" -> {[ok |-> TRUE, error |-> NonErr]}
      [] step = "createToken" ->
            {[ok |-> TRUE, error |-> NonErr],
             [ok |-> FALSE, error |-> Err("invalid key")]}

\* The awaited step settles and the handler runs to its next await or to its
\* response.
ConnectionDetailsStep ==
    /\ cdReq.pc \notin {"idle", "responded"}
    /\ \E o \in StepOutcomes(cdReq.pc) :
         LET steps == RouteSteps(cdReq.method)
             i == Len(cdReq.calls)
             r == [cdReq EXCEPT !.done = @ \cup {cdReq.pc}]
         IN  cdReq' =
               IF ~o.ok THEN Fail(cdReq, o.error)
               ELSE IF i < Len(steps)
               THEN [r EXCEPT !.pc = steps[i + 1], !.calls = Append(@, steps[i + 1])]
               ELSE [r EXCEPT !.pc = "responded", !.status = 200, !.details = TRUE]
    /\ UNCHANGED <<env, shut, roomVars, rpcVars, pageVars>>

\* The response is sent; the route takes the next request.
ConnectionDetailsDone ==
    /\ cdReq.pc = "responded"
    /\ cdReq' = NoReq
    /\ UNCHANGED <<env, shut, roomVars, rpcVars, pageVars>>

InitServer ==
    /\ env = EnvSet
    /\ shut = NoShut
    /\ cdReq = NoReq

InitShutdown ==
    /\ InitRoom
    /\ InitRpc
    /\ InitPage
    /\ env \in Envs
    /\ shut = NoShut
    /\ cdReq = NoReq

NextShutdown == ShutdownRoomPost \/ ShutdownDeleteSettle \/ ShutdownRoomDone

SpecShutdown == InitShutdown /\ [][NextShutdown]_vars

NextConnectionDetails ==
    \/ ConnectionDetailsGet
    \/ ConnectionDetailsPost
    \/ ConnectionDetailsStep
    \/ ConnectionDetailsDone

SpecConnectionDetails == InitShutdown /\ [][NextConnectionDetails]_vars

----------------------------------------------------------------------------
(* Page: the permission selector and onConnectButtonClicked *)

onPermissionSelected ==
    /\ roomState = "disconnected"
    /\ ~selectedPermissions.selected
    /\ \E p \in PermissionOptions : selectedPermissions' = p
    /\ UNCHANGED <<serverVars, roomVars, rpcVars, rpcLogs, shouldAutoDisconnect, effectDep, auto, conn,
                   hcd, fallbackTimer, disconnectCallers>>

\* What the SDK's track constructors return.
ScreenTrackLists == {<<"screen">>, <<"screen", "screen_audio">>}

\* The bodies of the error responses of /api/connection-details: the message
\* of the Error the handler caught, as plain text, or the framework's own body
\* when the handler returned no response.
ErrorBodies ==
    { "LIVEKIT_URL is not defined", "LIVEKIT_API_KEY is not defined",
      "LIVEKIT_API_SECRET is not defined", "Invalid permission types - must be boolean",
      SyntaxErr.message, DestructureErr.message, "Internal Server Error" }
    \cup { o.error.message : o \in { x \in UNION { StepOutcomes(step) : step \in
                                                     {"createSession", "createRoom",
                                                      "createToken"} } : x.error.isError } }

\* How the fetch of the connection details ends: the response with the
\* ConnectionDetails as JSON, an error response, or a rejected fetch.
FetchOutcomes ==
    [kind : {"details"}, roomName : RoomNames, body : {"details"}]
    \cup [kind : {"error"}, roomName : {""}, body : ErrorBodies]
    \cup [kind : {"reject"}, roomName : {""}, body : {""}]

LenientJson(o) ==
    IF o.kind = "details" THEN [ok |-> TRUE, details |-> o.roomName]
    ELSE [ok |-> TRUE, details |-> "undefined"]
\* await response.json() and the reads of serverUrl and participantToken: the
\* ConnectionDetails; undefined fields when the body is another JSON object;
\* a throw when the body is no JSON or is null.
ResponseJson(o) ==
    IF o.kind = "details" THEN [ok |-> TRUE, details |-> o.roomName]
    ELSE IF JSONParse(o.body).ok /\ JSONParse(o.body).kind = "object"
    THEN [ok |-> TRUE, details |-> "undefined"]
    ELSE [ok |-> FALSE, details |-> "none"]

PublishBeforeConnect == <<"audio", "video", "screen", "fetch", "publish", "connect">>
\* The order of the awaited operations of onConnectButtonClicked (FIRST, SECOND,
\* THIRD, FOURTH in the code).
OpOrder == <<"audio", "video", "screen", "fetch", "connect", "publish">>

\* Whether the operation is executed at all in this invocation.
Applicable(op, c) ==
    CASE op = "audio" -> selectedPermissions.audio
      [] op = "video" -> selectedPermissions.video
      [] op = "screen" -> selectedPermissions.screen
      [] op = "publish" -> c.published < Len(c.localTracks)
      [] OTHER -> TRUE

Position(op) == IF op = "start" THEN 0 ELSE CHOOSE i \in 1..Len(OpOrder) : OpOrder[i] = op

\* The next operation the handler reaches after `op`, "idle" when it returns.
NextOp(c, op) ==
    LET later == {j \in (Position(op) + 1)..Len(OpOrder) : Applicable(OpOrder[j], c)}
    IN  IF later = {} THEN "idle"
        ELSE OpOrder[CHOOSE j \in later : \A k \in later : j <= k]

Step(c, name) == [c EXCEPT !.steps = Append(@, name)]
Alert(c, text) == [c EXCEPT !.pc = "idle", !.alerts = @ \cup {text}]
To(c, op) == [c EXCEPT !.pc = NextOp(c, op)]

StopsOnNoFailure(op) == FALSE
StopsOnAnyFailure(op) == TRUE
\* Whether the catch block of a track constructor ends with `return`: the one
\* of createLocalAudioTrack does, those of the video and screen tracks do not.
StopsOnFailure(op) == op = "audio"

\* The catch block of a track constructor: the alert, then the return or the
\* rest of the handler.
TrackFailure(c, op, text) ==
    IF StopsOnFailure(op) THEN Alert(c, text)
    ELSE To([c EXCEPT !.alerts = @ \cup {text}], op)

pageRest == <<serverVars, rpcVars, selectedPermissions, rpcLogs, shouldAutoDisconnect, effectDep, auto,
              hcd, fallbackTimer, disconnectCallers>>

\* The button is rendered while the agent state is "disconnected".
onConnectButtonClicked ==
    /\ roomState = "disconnected"
    /\ conn.pc = "idle"
    /\ IF ~selectedPermissions.selected
       THEN conn' = NoConn
       ELSE conn' = To(NoConn, "start")
    /\ UNCHANGED <<roomVars, pageRest>>

CreateAudioTrack ==
    /\ conn.pc = "audio"
    /\ \E ok \in BOOLEAN :
         LET c == Step(conn, "createLocalAudioTrack")
         IN  conn' = IF ok
                     THEN To([c EXCEPT !.localTracks = Append(@, "audio")], "audio")
                     ELSE TrackFailure(c, "audio", "Microphone access denied")
    /\ UNCHANGED <<roomVars, pageRest>>

CreateVideoTrack ==
    /\ conn.pc = "video"
    /\ \E ok \in BOOLEAN :
         LET c == Step(conn, "createLocalVideoTrack")
         IN  conn' = IF ok
                     THEN To([c EXCEPT !.localTracks = Append(@, "video")], "video")
                     ELSE TrackFailure(c, "video", "Camera access denied")
    /\ UNCHANGED <<roomVars, pageRest>>

CreateScreenTracks ==
    /\ conn.pc = "screen"
    /\ \E ok \in BOOLEAN, tracks \in ScreenTrackLists :
         LET c == Step(conn, "createLocalScreenTracks")
         IN  conn' = IF ok
                     THEN To([c EXCEPT !.localTracks = @ \o tracks], "screen")
                     ELSE TrackFailure(c, "screen", "Screen share access denied")
    /\ UNCHANGED <<roomVars, pageRest>>

\* fetch(...) and response.json(); the response's status is not looked at.
FetchConnectionDetails ==
    /\ conn.pc = "fetch"
    /\ \E o \in FetchOutcomes :
         LET c == [Step(conn, "fetch") EXCEPT !.response = o.kind]
             json == ResponseJson(o)
         IN  conn' = IF o.kind # "reject" /\ json.ok
                     THEN To([c EXCEPT !.details = json.details], "fetch")
                     ELSE Alert(c, "Failed to connect")
    /\ UNCHANGED <<roomVars, pageRest>>

\* room.connect(serverUrl, participantToken) is called.
RoomConnect ==
    /\ conn.pc = "connect"
    /\ conn' = [Step(conn, "connect") EXCEPT !.pc = "connecting"]
    /\ roomState' = "connecting"
    /\ UNCHANGED <<remoteParticipants, roomName, pageRest>>

\* room.connect settles; with undefined url and token it can only reject.
RoomConnectSettle ==
    /\ conn.pc = "connecting"
    /\ \E ok \in BOOLEAN :
         IF ok /\ conn.details # "undefined"
         THEN /\ roomState' = "connected"
              /\ roomName' = conn.details
              /\ conn' = To([conn EXCEPT !.connected = TRUE], "connect")
         ELSE /\ roomState' = "disconnected"
              /\ roomName' = roomName
              /\ conn' = Alert(conn, "Failed to connect")
    /\ UNCHANGED <<remoteParticipants, pageRest>>

\* One turn of the publish loop; a failed publishTrack is logged and the loop
\* goes on.
PublishTrack ==
    /\ conn.pc = "publish"
    /\ \E ok \in BOOLEAN :
         LET c == [Step(conn, "publishTrack") EXCEPT
                      !.published = @ + 1,
                      !.publishErrors = @ + (IF ok THEN 0 ELSE 1)]
         IN  conn' = IF Applicable("publish", c) THEN c ELSE To(c, "publish")
    /\ UNCHANGED <<roomVars, pageRest>>

----------------------------------------------------------------------------
(* Page: the inbound "interaction" RPC and addRpcLog *)

\* A field of the event data: a string, or absent or of another type.
Str(v) == [isString |-> TRUE, value |-> v]
NotStr == [isString |-> FALSE, value |-> ""]

EventData(t, et, e) == [kind |-> "object", type |-> t, event_type |-> et, event |-> e]

\* What the handler ends up with as eventData: an object, null, or a payload
\* string that JSON.parse rejects.
InboundEvents ==
    { EventData(Str("session_shutdown"), NotStr, NotStr),
      EventData(NotStr, Str("transcript"), Str("session_shutdown")),
      [kind |-> "null", type |-> NotStr, event_type |-> NotStr, event |-> NotStr],
      [kind |-> "invalid", type |-> NotStr, event_type |-> NotStr, event |-> NotStr] }

EventFieldFirst(d) ==
    IF d.kind = "object"
    THEN IF d.event.isString THEN d.event.value
         ELSE IF d.event_type.isString THEN d.event_type.value
         ELSE IF d.type.isString THEN d.type.value
         ELSE "unknown"
    ELSE "unknown"

\* The precedence of handleAgentInteraction: type, event_type, event, "unknown".
EventType(d) ==
    IF d.kind = "object"
    THEN IF d.type.isString THEN d.type.value
         ELSE IF d.event_type.isString THEN d.event_type.value
         ELSE IF d.event.isString THEN d.event.value
         ELSE "unknown"
    ELSE "unknown"

LogLimit == 50

Slice50(prev) == SubSeq(prev, 1, IF Len(prev) < LogLimit THEN Len(prev) ELSE LogLimit)
\* prev.slice(0, 49)
Slice49(prev) == SubSeq(prev, 1, IF Len(prev) < LogLimit - 1 THEN Len(prev) ELSE LogLimit - 1)

\* Date.now() at a call of addRpcLog: the clock has moved on since the entry
\* at the head of the log was made.
Now(prev) == IF prev = <<>> THEN 1 ELSE prev[1].timestamp + 1

\* logEntry = { id, timestamp, event, data }
LogEntry(event, data, timestamp) == [timestamp |-> timestamp, event |-> event, data |-> data]

\* setRpcLogs((prev) => [logEntry, ...prev.slice(0, 49)])
AddRpcLog(prev, entry) == <<entry>> \o Slice49(prev)

\* addRpcLog(event, data): the new log and the session_shutdown check.
addRpcLog(event, data) ==
    /\ rpcLogs' = AddRpcLog(rpcLogs, LogEntry(event, data, Now(rpcLogs)))
    /\ shouldAutoDisconnect' = IF event = "session_shutdown" THEN TRUE ELSE shouldAutoDisconnect

\* The whole of handleAgentInteraction, addRpcLog included, on event data
\* drawn from `events`.
AgentInteraction(events) ==
    /\ roomState = "connected"
    /\ remoteParticipants # {}
    /\ \E d \in events :
         IF d.kind = "invalid"
         THEN UNCHANGED <<rpcLogs, shouldAutoDisconnect>>
         ELSE addRpcLog(EventType(d), d)
    /\ UNCHANGED <<serverVars, roomVars, rpcVars, selectedPermissions, effectDep, auto, conn, hcd,
                   fallbackTimer, disconnectCallers>>

handleAgentInteraction ==
    /\ Len(rpcLogs) < MaxInbound
    /\ AgentInteraction(InboundEvents)

----------------------------------------------------------------------------
(* Page: the auto-disconnect effect *)

\* What room.name is once the room is disconnected: the SDK may keep or clear it.
NamesAfterDisconnect == {roomName, ""}

SkipDisconnectCheck(ok) == TRUE
\* Whether autoDisconnect goes on to the delete-room request after
\* `await room.disconnect()`: only when it did not throw.
ContinuesAfterDisconnect(ok) == ok

NameAfterDisconnect(before, after) == after
\* The room name autoDisconnect puts in the request: `const roomName = room.name`
\* is read before `await room.disconnect()`.
NameForPost(before, after) == before

KeepFlag(flag) == flag
\* setShouldAutoDisconnect(false), the last statement of autoDisconnect.
FlagAtEnd(flag) == FALSE

\* The effect runs after a render in which shouldAutoDisconnect has changed.
\* With the flag set and the room connected it starts autoDisconnect, which
\* reads room.name and calls room.disconnect().
AutoDisconnectEffect ==
    /\ shouldAutoDisconnect # effectDep
    /\ effectDep' = shouldAutoDisconnect
    /\ IF shouldAutoDisconnect /\ roomState = "connected"
       THEN /\ auto' = [NoAuto EXCEPT !.pc = "disconnecting", !.roomName = roomName,
                                      !.roomAtDisconnect = roomName]
            /\ disconnectCallers' = disconnectCallers \cup {"autoDisconnect"}
       ELSE /\ auto' = IF shouldAutoDisconnect THEN [NoAuto EXCEPT !.pc = "skipped"]
                       ELSE [auto EXCEPT !.pc = IF @ \in {"ended", "skipped"} THEN "idle" ELSE @]
            /\ UNCHANGED disconnectCallers
    /\ UNCHANGED <<serverVars, roomVars, rpcVars, selectedPermissions, rpcLogs, shouldAutoDisconnect,
                   conn, hcd, fallbackTimer>>

\* The timer set by the catch block of handleCustomDisconnect fires:
\* room.disconnect() is called and settles.
FallbackTimerFires ==
    /\ fallbackTimer
    /\ fallbackTimer' = FALSE
    /\ disconnectCallers' = disconnectCallers \cup {"fallback"}
    /\ \E ok \in BOOLEAN, n \in NamesAfterDisconnect :
         IF ok
         THEN /\ roomState' = "disconnected"
              /\ remoteParticipants' = {}
              /\ roomName' = n
         ELSE UNCHANGED roomVars
    /\ UNCHANGED <<serverVars, rpcVars, selectedPermissions, rpcLogs, shouldAutoDisconnect, effectDep,
                   auto, conn, hcd>>

\* The browser runs a callback the page has scheduled: the effect, or the timer.
ScheduledCallback ==
    \E cb \in {"effect", "timer"} :
        IF cb = "effect" THEN AutoDisconnectEffect ELSE FallbackTimerFires

\* room.disconnect() of autoDisconnect settles and the function runs up to the
\* fetch of /api/shutdown-room, or to its end.
AutoDisconnectSettle ==
    /\ auto.pc = "disconnecting"
    /\ \E ok \in BOOLEAN, n \in NamesAfterDisconnect :
         /\ IF ok
            THEN /\ roomState' = "disconnected"
                 /\ remoteParticipants' = {}
                 /\ roomName' = n
            ELSE UNCHANGED roomVars
         /\ IF ContinuesAfterDisconnect(ok) /\ NameForPost(auto.roomName, roomName') # ""
            THEN /\ auto' = [auto EXCEPT !.pc = "posting", !.disconnected = ok,
                                         !.posted = TRUE,
                                         !.body = NameForPost(auto.roomName, roomName')]
                 /\ UNCHANGED shouldAutoDisconnect
            ELSE /\ auto' = [auto EXCEPT !.pc = "ended", !.disconnected = ok]
                 /\ shouldAutoDisconnect' = FlagAtEnd(shouldAutoDisconnect)
    /\ UNCHANGED <<serverVars, rpcVars, selectedPermissions, rpcLogs, effectDep, conn, hcd,
                   fallbackTimer, disconnectCallers>>

\* The POST to /api/shutdown-room and response.json() settle: whatever the
\* outcome, it is only logged.
ShutdownFetchOutcomes == {"ok", "errorStatus", "reject", "badJson"}

ShutdownFetchSettle ==
    /\ auto.pc = "posting"
    /\ \E o \in ShutdownFetchOutcomes :
         auto' = [auto EXCEPT !.pc = "ended"]
    /\ shouldAutoDisconnect' = FlagAtEnd(shouldAutoDisconnect)
    /\ UNCHANGED <<serverVars, roomVars, rpcVars, selectedPermissions, rpcLogs, effectDep, conn, hcd,
                   fallbackTimer, disconnectCallers>>

\* The server or the network ends the connection.
RoomDropped ==
    /\ roomState = "connected"
    /\ roomState' = "disconnected"
    /\ remoteParticipants' = {}
    /\ roomName' \in NamesAfterDisconnect
    /\ UNCHANGED <<rpcVars, pageVars, serverVars>>

----------------------------------------------------------------------------
(* ControlBar: the RPC test button and the close button *)

controlRest == <<serverVars, roomVars, selectedPermissions, rpcLogs, shouldAutoDisconnect, effectDep,
                 auto, conn, disconnectCallers>>

\* The buttons are rendered while the agent state is neither "disconnected"
\* nor "connecting".
handleRPCTest ==
    /\ roomState = "connected"
    /\ CallInvoke("agent.hello", "handleRPCTest")
    /\ UNCHANGED <<controlRest, hcd, fallbackTimer>>

\* The alert with the response's message.
HandleRPCTestReturn ==
    /\ call.pc = "done"
    /\ call.caller = "handleRPCTest"
    /\ call' = NoCall
    /\ UNCHANGED <<controlRest, hcd, fallbackTimer>>

\* handleCustomDisconnect up to `await rpcClient.callClose(callId)`.
handleCustomDisconnect ==
    /\ roomState = "connected"
    /\ hcd.pc # "awaitClose"
    /\ CallInvoke("agent.close", "handleCustomDisconnect")
    /\ hcd' = [pc |-> "awaitClose", rpcFailed |-> FALSE]
    /\ UNCHANGED <<controlRest, fallbackTimer>>

\* callClose has settled: the handler returns, or its catch block sets the
\* fallback timer when the promise was rejected.
HandleCustomDisconnectReturn ==
    /\ hcd.pc = "awaitClose"
    /\ call.pc = "done"
    /\ call.caller = "handleCustomDisconnect"
    /\ hcd' = [pc |-> "returned", rpcFailed |-> call.cause \in {"noAgent", "reject", "timeout"}]
    /\ fallbackTimer' = IF call.result.settled = "rejected" THEN TRUE ELSE fallbackTimer
    /\ call' = NoCall
    /\ UNCHANGED controlRest

----------------------------------------------------------------------------
(* The connect flow: the permission selector and onConnectButtonClicked, *)
(* with every permission option and every outcome of the track           *)
(* constructors.                                                         *)

ConnectFlow ==
    \/ onConnectButtonClicked
    \/ CreateAudioTrack
    \/ CreateVideoTrack
    \/ CreateScreenTracks
    \/ FetchConnectionDetails
    \/ RoomConnect
    \/ RoomConnectSettle
    \/ PublishTrack

InitConnect == InitRoom /\ InitRpc /\ InitPage /\ InitServer

NextConnect ==
    \/ onPermissionSelected
    \/ ConnectFlow
    \/ ParticipantsChange
    \/ RoomDropped

SpecConnect == InitConnect /\ [][NextConnect]_vars

----------------------------------------------------------------------------
(* The session: the page from the moment the permissions are chosen; it    *)
(* connects, receives the agent's events, sends the close signal and       *)
(* disconnects, any number of times. The session is an audio-only one; the *)
(* other permission options are explored by SpecConnect.                   *)

SessionPermissions == {Permissions(TRUE, FALSE, FALSE)}

Init ==
    /\ InitRoom
    /\ InitRpc
    /\ selectedPermissions \in SessionPermissions
    /\ rpcLogs = <<>>
    /\ shouldAutoDisconnect = FALSE
    /\ effectDep = FALSE
    /\ auto = NoAuto
    /\ conn = NoConn
    /\ hcd = NoHcd
    /\ fallbackTimer = FALSE
    /\ disconnectCallers = {}
    /\ InitServer

\* With these permissions the video and screen blocks of
\* onConnectButtonClicked are skipped.
Next ==
    \/ onConnectButtonClicked
    \/ CreateAudioTrack
    \/ FetchConnectionDetails
    \/ RoomConnect
    \/ RoomConnectSettle
    \/ PublishTrack
    \/ ParticipantsChange
    \/ RoomDropped
    \/ handleAgentInteraction
    \/ ScheduledCallback
    \/ AutoDisconnectSettle
    \/ ShutdownFetchSettle
    \/ handleCustomDisconnect
    \/ HandleCustomDisconnectReturn
    \/ CallSettle

Spec == Init /\ [][Next]_vars

\* The browser runs a scheduled effect, and the promises of room.disconnect()
\* and of fetch settle.
FairSpec ==
    /\ Spec
    /\ WF_vars(AutoDisconnectEffect)
    /\ WF_vars(AutoDisconnectSettle)
    /\ WF_vars(ShutdownFetchSettle)

ShutdownLogged == \E i \in 1..Len(rpcLogs) : rpcLogs[i].event = "session_shutdown"

\* The effect has yet to see shouldAutoDisconnect turned on.
Triggered == shouldAutoDisconnect /\ ~effectDep

C10_DeleteAfterDisconnect ==
    [][ /\ auto'.posted => auto'.disconnected /\ auto'.body = auto'.roomAtDisconnect
        /\ auto'.pc = "ended" /\ ~auto'.disconnected => ~auto'.posted
        /\ auto.pc # "ended" /\ auto'.pc = "ended" => ~shouldAutoDisconnect' ]_vars

C10_Witness ==
    /\ auto.pc = "ended"
    /\ ~auto.disconnected
    /\ ~auto.posted
    /\ ~shouldAutoDisconnect
    /\ roomState = "connected"

\* C8 as claimed: when the close RPC failed, handleCustomDisconnect has set the
\* fallback timer (or the timer has already called room.disconnect).
C8_FallbackOnFailure ==
    hcd.pc = "returned" /\ hcd.rpcFailed =>
        fallbackTimer \/ "fallback" \in disconnectCallers

StepRank(step) ==
    CASE step \in {"createLocalAudioTrack", "createLocalVideoTrack",
                   "createLocalScreenTracks"} -> 1
      [] step = "fetch" -> 2
      [] step = "connect" -> 3
      [] step = "publishTrack" -> 4

C4_ConnectOrder ==
    /\ \A i, j \in 1..Len(conn.steps) :
          i < j => StepRank(conn.steps[i]) <= StepRank(conn.steps[j])
    /\ (\E i \in 1..Len(conn.steps) : conn.steps[i] = "publishTrack") => conn.connected
    /\ (\E i \in 1..Len(conn.steps) : conn.steps[i] = "connect") => conn.details # "none"
    /\ conn.pc = "publish" => conn.connected
    /\ conn.published <= Len(conn.localTracks)

C4_Witness ==
    /\ conn.pc = "idle"
    /\ conn.steps = <<"createLocalAudioTrack", "createLocalVideoTrack",
                      "createLocalScreenTracks", "fetch", "connect", "publishTrack",
                      "publishTrack", "publishTrack", "publishTrack">>

Called(step) == \E i \in 1..Len(conn.steps) : conn.steps[i] = step
Calls(step) == Cardinality({i \in 1..Len(conn.steps) : conn.steps[i] = step})
Has(tracks, kind) == \E i \in 1..Len(tracks) : tracks[i] = kind

\* C11: when the audio permission is selected and createLocalAudioTrack fails,
\* onConnectButtonClicked returns at once: the audio constructor is the only
\* call it has made (no video or screen track, no fetch of the connection
\* details, no room.connect), and the room is still disconnected.
C11_AudioFailureStops ==
    "Microphone access denied" \in conn.alerts =>
        /\ selectedPermissions.audio
        /\ conn.pc = "idle"
        /\ conn.steps = <<"createLocalAudioTrack">>
        /\ conn.localTracks = <<>>
        /\ conn.details = "none"
        /\ ~conn.connected
        /\ roomState = "disconnected"

C11_Witness ==
    /\ "Microphone access denied" \in conn.alerts
    /\ selectedPermissions = Permissions(TRUE, TRUE, TRUE)
    /\ conn.pc = "idle"

TrackFailed ==
    conn.alerts \cap {"Camera access denied", "Screen share access denied"} # {}

\* C12: when createLocalVideoTrack or createLocalScreenTracks fails, the flow
\* goes on without that track: it does not return before the connection
\* details are fetched; once they are received room.connect is called; and
\* once the room is connected publishTrack is called for every track that was
\* created, the failed ones not among them.
C12_ContinuesWithoutTrack ==
    TrackFailed =>
        /\ conn.pc = "idle" => Called("fetch")
        /\ conn.pc = "idle" /\ conn.details \in RoomNames => Called("connect")
        /\ conn.pc = "idle" /\ conn.connected =>
              /\ conn.published = Len(conn.localTracks)
              /\ Calls("publishTrack") = Len(conn.localTracks)
        /\ "Camera access denied" \in conn.alerts => ~Has(conn.localTracks, "video")
        /\ "Screen share access denied" \in conn.alerts => ~Has(conn.localTracks, "screen")
        /\ selectedPermissions.audio => Has(conn.localTracks, "audio")

C12_Witness ==
    /\ conn.alerts = {"Camera access denied", "Screen share access denied"}
    /\ conn.pc = "idle"
    /\ conn.connected
    /\ conn.localTracks = <<"audio">>
    /\ conn.steps = <<"createLocalAudioTrack", "createLocalVideoTrack",
                      "createLocalScreenTracks", "fetch", "connect", "publishTrack">>

\* C13: when the fetch of the connection details is rejected or is answered
\* with an error response, onConnectButtonClicked calls neither room.connect
\* nor publishTrack: it has returned, the room is disconnected and the user
\* has been alerted that connecting failed.
C13_NoConnectOnFailedFetch ==
    conn.response \in {"error", "reject"} =>
        /\ conn.pc = "idle"
        /\ ~Called("connect")
        /\ ~Called("publishTrack")
        /\ conn.published = 0
        /\ ~conn.connected
        /\ roomState = "disconnected"
        /\ "Failed to connect" \in conn.alerts

C13_Witness ==
    /\ conn.response = "error"
    /\ conn.pc = "idle"
    /\ conn.localTracks = <<"audio", "video">>
    /\ conn.alerts = {"Failed to connect"}

----------------------------------------------------------------------------
(* AgentRPCClient on its own: any method, called directly or by the RPC test *)
(* button, against any set of remote participants.                          *)

InitRpcSpec ==
    /\ roomState = "connected"
    /\ roomName \in RoomNames
    /\ remoteParticipants \in SUBSET RemoteIdentities
    /\ InitRpc
    /\ InitPage
    /\ InitServer

NextRpc ==
    \/ CallDirect
    \/ CallSettle
    \/ CallDone
    \/ handleRPCTest
    \/ HandleRPCTestReturn
    \/ ParticipantsChange

SpecRpc == InitRpcSpec /\ [][NextRpc]_vars

StartsWith(message, prefix) == Len(message) >= 1 /\ message[1] = prefix

FailureCauses == {"noAgent", "reject", "timeout", "invalidJson"}

\* C1: a call of callHelloWorld, callInteraction or callClose always resolves and
\* never rejects; when no agent participant is found, when performRpc rejects or
\* times out, or when the response is not valid JSON, it resolves to an object
\* with success = false and a message that starts with "Error: ".
C1_AlwaysResolves ==
    call.pc = "done" =>
        /\ call.result.settled = "resolved"
        /\ call.cause \in FailureCauses =>
              /\ call.result.kind = "object"
              /\ call.result.success = FALSE
              /\ StartsWith(call.result.message, "Error: ")

C1_Witness ==
    /\ call.pc = "done"
    /\ call.cause = "invalidJson"
    /\ call.result.message = <<"Error: ", "Unexpected token < in JSON">>

\* C2: one invocation issues at most one performRpc request: a request that
\* failed or timed out is not issued again (the invocation is over, with exactly
\* one request behind it, or none when no agent was found), and nothing of an
\* invocation is kept once it has returned.
C2_AtMostOneRpc ==
    /\ call.rpcCount <= 1
    /\ call.pc = "awaitRpc" => call.rpcCount = 1
    /\ call.pc = "done" => call.rpcCount = (IF call.cause = "noAgent" THEN 0 ELSE 1)
    /\ call.pc = "idle" => call = NoCall

C2_Witness ==
    /\ call.pc = "done"
    /\ call.cause = "timeout"
    /\ call.rpcCount = 1

----------------------------------------------------------------------------
(* Claims about the routes *)

EnvVarNames == {"API_KEY", "API_SECRET", "LIVEKIT_URL"}

\* C5: POST /api/shutdown-room answers {success: true} only if deleteRoom was
\* called with the request's non-empty roomName and completed; a missing
\* environment variable gives status 500 and, with the environment in place, a
\* missing or empty roomName gives status 400, both without a call of
\* deleteRoom; a failing deleteRoom gives status 500 with an error that starts
\* with "Failed to shutdown room: ".
C5_ShutdownRoom ==
    shut.pc = "responded" =>
        /\ shut.success =>
              /\ shut.status = 200
              /\ shut.body.roomName.type = "string"
              /\ shut.body.roomName.value # ""
              /\ shut.deleteCalls = <<shut.body.roomName.value>>
              /\ shut.deleteOk
        /\ (\E k \in EnvVarNames : env[k] \in {"undefined", ""}) =>
              shut.status = 500 /\ shut.deleteCalls = <<>> /\ ~shut.success
        /\ /\ \A k \in EnvVarNames : env[k] = "set"
           /\ shut.body.kind = "object"
           /\ shut.body.roomName \in {Absent, JStr("")}
           => shut.status = 400 /\ shut.deleteCalls = <<>> /\ ~shut.success
        /\ shut.deleteCalls # <<>> /\ ~shut.deleteOk =>
              /\ shut.status = 500
              /\ ~shut.success
              /\ StartsWith(shut.error, "Failed to shutdown room: ")

C5_Witness ==
    /\ shut.pc = "responded"
    /\ shut.deleteCalls = <<"voice_assistant_room_1">>
    /\ ~shut.deleteOk
    /\ shut.error = <<"Failed to shutdown room: ", "Unknown error">>

HasNonBoolean(b) ==
    b.kind = "object" /\ \E f \in {b.audio, b.video, b.screen} : f.type # "boolean"

InvalidPermissions == "Invalid permission types - must be boolean"

\* C6 as claimed: a POST whose audio, video or screen is not a boolean is
\* answered with status 500 and the message "Invalid permission types - must be
\* boolean", and no session, room or token is created.
C6_RejectsNonBoolean ==
    cdReq.pc = "responded" /\ cdReq.method = "POST" /\ HasNonBoolean(cdReq.body) =>
        /\ cdReq.status = 500
        /\ cdReq.message = InvalidPermissions
        /\ cdReq.calls = <<>>

\* C6, amended: such a POST is always answered with status 500 and creates no
\* session, room or token; the message is "Invalid permission types - must be
\* boolean" when LIVEKIT_URL, LIVEKIT_API_KEY and LIVEKIT_API_SECRET are all
\* defined, and names the first undefined variable otherwise.
C6_RejectsNonBooleanWhenConfigured ==
    cdReq.method = "POST" /\ HasNonBoolean(cdReq.body) =>
        /\ cdReq.pc = "responded"
        /\ cdReq.status = 500
        /\ cdReq.calls = <<>>
        /\ cdReq.done = {}
        /\ ~cdReq.details
        /\ (\A k \in EnvVarNames : env[k] # "undefined") => cdReq.message = InvalidPermissions
        /\ (\E k \in EnvVarNames : env[k] = "undefined") =>
              cdReq.message \in {"LIVEKIT_URL is not defined", "LIVEKIT_API_KEY is not defined",
                                 "LIVEKIT_API_SECRET is not defined"}

C6_Witness ==
    /\ cdReq.pc = "responded"
    /\ cdReq.method = "POST"
    /\ cdReq.body.audio = JBool(TRUE)
    /\ cdReq.body.video = JBool(FALSE)
    /\ cdReq.body.screen = JStr("true")
    /\ env = EnvSet
    /\ cdReq.message = InvalidPermissions

WithoutSleep(calls) == SelectSeq(calls, LAMBDA c : c # "sleep")
IsPrefix(a, b) == Len(a) <= Len(b) /\ \A i \in 1..Len(a) : a[i] = b[i]

\* C7: in GET and in POST the session is created first, then the room, and the
\* token is generated only after createRoom has completed; connection details
\* are returned only after all three steps have succeeded.
C7_SessionRoomToken ==
    /\ IsPrefix(WithoutSleep(cdReq.calls), <<"createSession", "createRoom", "createToken">>)
    /\ \A i \in 1..Len(cdReq.calls) :
          /\ cdReq.calls[i] = "createRoom" => "createSession" \in cdReq.done
          /\ cdReq.calls[i] = "createToken" => "createRoom" \in cdReq.done
    /\ cdReq.details =>
          /\ cdReq.pc = "responded"
          /\ cdReq.status = 200
          /\ {"createSession", "createRoom", "createToken"} \subseteq cdReq.done
    /\ cdReq.pc = "responded" /\ cdReq.status = 200 => cdReq.details

C7_WitnessGet ==
    /\ cdReq.pc = "responded"
    /\ cdReq.method = "GET"
    /\ cdReq.details
    /\ cdReq.calls = <<"createSession", "createRoom", "createToken">>

C7_Witness ==
    /\ cdReq.pc = "responded"
    /\ cdReq.method = "POST"
    /\ cdReq.details
    /\ cdReq.calls = <<"createSession", "createRoom", "sleep", "createToken">>

----------------------------------------------------------------------------
(* The RPC log on its own: handleAgentInteraction on a page whose log is   *)
(* nearly full or full.                                                    *)

NullData == [kind |-> "null", type |-> NotStr, event_type |-> NotStr, event |-> NotStr]

\* The log after k events of type "unknown".
FilledLog(k) == [i \in 1..k |-> LogEntry("unknown", NullData, k - i + 1)]

InitConnected ==
    /\ roomState = "connected"
    /\ roomName \in RoomNames
    /\ remoteParticipants = {"agent-AJ_1"}
    /\ InitRpc
    /\ selectedPermissions \in SessionPermissions
    /\ shouldAutoDisconnect = FALSE
    /\ effectDep = FALSE
    /\ auto = NoAuto
    /\ conn = NoConn
    /\ hcd = NoHcd
    /\ fallbackTimer = FALSE
    /\ disconnectCallers = {}
    /\ InitServer

InitLog ==
    /\ InitConnected
    /\ rpcLogs \in {FilledLog(k) : k \in (LogLimit - MaxInbound)..LogLimit}

LogInteraction ==
    /\ Now(rpcLogs) <= LogLimit + MaxInbound
    /\ AgentInteraction(InboundEvents)

NextLog == LogInteraction

SpecLog == InitLog /\ [][NextLog]_vars

NewestFirst(log) == \A i \in 1..(Len(log) - 1) : log[i].timestamp > log[i + 1].timestamp

\* C14: the RPC log never holds more than 50 entries and is ordered newest
\* first; a call of addRpcLog puts the new entry at the head, keeps the
\* entries that were there in their order, and drops the oldest one when 50
\* were already held.
C14_LogBounded ==
    /\ [](Len(rpcLogs) <= 50 /\ NewestFirst(rpcLogs))
    /\ [][ rpcLogs' # rpcLogs =>
              /\ Len(rpcLogs') = (IF Len(rpcLogs) >= 50 THEN 50 ELSE Len(rpcLogs) + 1)
              /\ \A i \in 2..Len(rpcLogs') : rpcLogs'[i] = rpcLogs[i - 1]
              /\ \A i \in 1..Len(rpcLogs) : rpcLogs'[1].timestamp > rpcLogs[i].timestamp ]_vars

C14_Witness ==
    /\ Len(rpcLogs) = 50
    /\ rpcLogs[1].timestamp = 52
    /\ rpcLogs[1].event = "session_shutdown"
    /\ rpcLogs[50].timestamp = 3

----------------------------------------------------------------------------
(* handleAgentInteraction on its own: event data with every combination of *)
(* the fields type, event_type and event.                                  *)

\* A field that is present and is not a string.
Num == [isString |-> FALSE, value |-> "42"]

FieldValues == {Str("session_shutdown"), Str("transcript"), Num, NotStr}

AllEventData ==
    {EventData(t, et, e) : t \in FieldValues, et \in FieldValues, e \in FieldValues}
    \cup {NullData,
          [kind |-> "invalid", type |-> NotStr, event_type |-> NotStr, event |-> NotStr]}

InitInteraction ==
    /\ InitConnected
    /\ rpcLogs = <<>>

AnyInteraction ==
    /\ Len(rpcLogs) < MaxInbound
    /\ AgentInteraction(AllEventData)

NextInteraction == AnyInteraction

SpecInteraction == InitInteraction /\ [][NextInteraction]_vars

\* C15: the event type logged for an inbound interaction RPC is the field type
\* of the event data when that is a string; else event_type when that is a
\* string; else event when that is a string; else "unknown". A field that is
\* absent or is not a string is passed over.
C15_EventTypePrecedence ==
    \A i \in 1..Len(rpcLogs) :
        LET d == rpcLogs[i].data
            logged == rpcLogs[i].event
        IN  /\ d.kind = "object" /\ d.type.isString => logged = d.type.value
            /\ d.kind = "object" /\ ~d.type.isString /\ d.event_type.isString =>
                  logged = d.event_type.value
            /\ d.kind = "object" /\ ~d.type.isString /\ ~d.event_type.isString
                  /\ d.event.isString => logged = d.event.value
            /\ d.kind = "object" /\ ~d.type.isString /\ ~d.event_type.isString
                  /\ ~d.event.isString => logged = "unknown"
            /\ d.kind # "object" => logged = "unknown"

C15_Witness ==
    /\ Len(rpcLogs) = 1
    /\ rpcLogs[1].data = EventData(Num, Str("transcript"), Str("session_shutdown"))
    /\ rpcLogs[1].event = "transcript"
    /\ ~shouldAutoDisconnect

====
